---- MODULE Spec2Model ----
(***************************************************************************)
(* A model of the two tweet loaders of twitter_postgres_parallel:          *)
(*   load_tweets.py        the row strategy   (insert_tweet, get_id_urls)  *)
(*   load_tweets_batch.py  the batch strategy (_insert_tweets, bulk_insert)*)
(* The store is PostgreSQL reached through SQLAlchemy's legacy (1.x)       *)
(* Connection: execute() outside begin() autocommits, the outermost        *)
(* begin() opens the transaction, a begin() inside it is a marker whose    *)
(* commit does nothing and whose rollback rolls the outermost one back.    *)
(* A relation is a set of rows; its uniqueness key is Key(table, row).     *)
(***************************************************************************)
EXTENDS Integers, Sequences, FiniteSets, TLC

(***************************************************************************)
(* Bounds of the model.                                                    *)
(***************************************************************************)
MaxOps == 2          \* insert_tweet / get_id_urls calls in one behaviour of Spec
MaxFiles == 1        \* archive members the batch loader reads in one behaviour
MaxBatch == 2        \* the largest --batch_size

(***************************************************************************)
(* Python's None / SQL NULL, for ids and for strings.                      *)
(***************************************************************************)
NullId == 0
NullStr == "NULL"

(***************************************************************************)
(* The input records.  A raw tweet is the dict json.loads returns:         *)
(*   missing   the top-level keys the dict does not have                   *)
(*   user      tweet['user']; profile stands for created_at, the counters, *)
(*             the flags, location and description, which travel together  *)
(*   place     "absent" (no key), "null" (key with None) or "obj"          *)
(*   ext       the keys extended_tweet.entities has (the extended          *)
(*             containers), with their values in the x_ fields             *)
(***************************************************************************)
Alice1 == [id |-> 1, screen_name |-> "alice", name |-> "Alice", url |-> "u1", profile |-> "p1"]
Alice2 == [id |-> 1, screen_name |-> "alice", name |-> "Alice", url |-> "u1", profile |-> "p2"]
Bob1 == [id |-> 2, screen_name |-> "bob", name |-> "Bob", url |-> NullStr, profile |-> "p1"]
Carol1 == [id |-> 3, screen_name |-> "carol", name |-> "Carol", url |-> "u2", profile |-> "p1"]

MentionOf(u) == [id |-> u.id, name |-> u.name, screen_name |-> u.screen_name]

BaseTweet ==
    [id |-> 0, user |-> Alice1, text |-> "t", missing |-> {},
     created_at |-> "d1", in_reply_to_user_id |-> NullId, in_reply_to_screen_name |-> NullStr,
     place |-> "absent",
     urls |-> << >>, user_mentions |-> << >>, hashtags |-> << >>, symbols |-> << >>,
     media |-> << >>,
     ext |-> {}, x_urls |-> << >>, x_user_mentions |-> << >>,
     x_hashtags |-> << >>, x_symbols |-> << >>]

\* Alice mentions Bob; two links, one of them her profile link; a photo.
T1 ==
    [BaseTweet EXCEPT !.id = 1, !.user = Alice1,
        !.user_mentions = << MentionOf(Bob1) >>, !.urls = << "u1", "u2" >>,
        !.hashtags = << "h" >>, !.symbols = << "s" >>,
        !.media = << [media_url |-> "u2", type |-> "photo"] >>]
\* Bob replies to Alice.
T2 ==
    [BaseTweet EXCEPT !.id = 2, !.user = Bob1, !.text = "r", !.created_at = "d2",
        !.in_reply_to_user_id = 1, !.in_reply_to_screen_name = "alice",
        !.urls = << "u2" >>]
\* A later tweet of Alice: her profile has changed in between.
T3 ==
    [BaseTweet EXCEPT !.id = 3, !.user = Alice2, !.created_at = "d3", !.user_mentions = << MentionOf(Carol1) >>]
\* A second delivery of tweet 1 with other content (the archive repeats ids).
T1b ==
    [BaseTweet EXCEPT !.id = 1, !.user = Alice2, !.text = "t2", !.urls = << "u3" >>,
        !.user_mentions = << MentionOf(Carol1) >>]
\* Malformed: Carol's tweet has no 'entities' key.
T4 ==
    [BaseTweet EXCEPT !.id = 4, !.user = Carol1, !.in_reply_to_user_id = 2,
        !.in_reply_to_screen_name = "bob", !.missing = {"entities"}]

\* Bob's long tweet: extended_tweet.entities holds hashtags only.
T5 ==
    [BaseTweet EXCEPT !.id = 5, !.user = Bob1, !.created_at = "d5",
        !.urls = << "u3" >>, !.hashtags = << "h" >>, !.symbols = << "s" >>,
        !.ext = {"hashtags"}, !.x_hashtags = << "h", "xh" >>]

Records == {T1, T2, T3, T1b, T4, T5}
URLs == {"u1", "u2", "u3"}

(***************************************************************************)
(* The store.                                                              *)
(***************************************************************************)
Tables == {"users", "tweets", "urls", "tweet_urls", "tweet_mentions", "tweet_tags", "tweet_media"}

EmptyDb ==
    [users |-> {}, tweets |-> {}, urls |-> {}, tweet_urls |-> {},
     tweet_mentions |-> {}, tweet_tags |-> {}, tweet_media |-> {}, url_seq |-> 0]

\* The rows of every relation, without the sequence behind urls.id_urls.
Rows(db) == [t \in Tables |-> db[t]]

\* The uniqueness key of a row: the primary key of users, tweets and urls (and the
\* unique url of urls), the whole row of an association relation.
Key(table, row) ==
    CASE table = "users" -> << row.id_users >>
      [] table = "tweets" -> << row.id_tweets >>
      [] table = "urls" -> << row.url >>
      [] OTHER -> << row >>

Conflicts(rel, table, row) == \E x \in rel : Key(table, x) = Key(table, row)

\* INSERT without ON CONFLICT: a duplicate key is a unique violation.
InsertOrRaise(db, table, row) ==
    IF Conflicts(db[table], table, row)
    THEN [db |-> db, err |-> TRUE]
    ELSE [db |-> [db EXCEPT ![table] = @ \cup {row}], err |-> FALSE]

\* INSERT ... ON CONFLICT DO UPDATE: the new row replaces the old one.
InsertOrUpdate(db, table, row) ==
    [db |-> [db EXCEPT ![table] =
                {x \in @ : Key(table, x) # Key(table, row)} \cup {row}],
     err |-> FALSE]

\* INSERT ... ON CONFLICT DO NOTHING of one row.
InsertIfAbsent(db, table, row) ==
    IF Conflicts(db[table], table, row)
    THEN [db |-> db, err |-> FALSE]
    ELSE [db |-> [db EXCEPT ![table] = @ \cup {row}], err |-> FALSE]

(***************************************************************************)
(* get_id_urls: insert the url (the sequence behind id_urls advances even  *)
(* when the insert conflicts), and look the id up when no row came back.   *)
(***************************************************************************)
\* The urls relation without its unique constraint: the insert never conflicts.
InsertUrlNoUnique(d, url) ==
    [db |-> [d EXCEPT !.url_seq = @ + 1,
                      !.urls = @ \cup {[id_urls |-> d.url_seq + 1, url |-> url]}],
     id |-> d.url_seq + 1, err |-> FALSE]

\* insert into urls (url) values (:url) on conflict do nothing returning id_urls:
\* the id of the row it inserted, or no row (NullId).
InsertUrl(db, url) ==
    LET id == db.url_seq + 1
        seq == [db EXCEPT !.url_seq = id]
        ins == InsertIfAbsent(seq, "urls", [id_urls |-> id, url |-> url])
    IN  [db |-> ins.db, id |-> IF ins.db.urls # seq.urls THEN id ELSE NullId,
         err |-> ins.err]

\* select id_urls from urls where url = :url, then res[0]: a TypeError without a row.
SelectUrl(db, url) ==
    IF \E x \in db.urls : x.url = url
    THEN [id |-> (CHOOSE x \in db.urls : x.url = url).id_urls, err |-> FALSE]
    ELSE [id |-> NullId, err |-> TRUE]

\* The insert without a uniqueness check: every call adds a row.
get_id_urls_always_inserts(db, url) ==
    LET id == db.url_seq + 1
    IN  [db |-> [db EXCEPT !.url_seq = id, !.urls = @ \cup {[id_urls |-> id, url |-> url]}],
         id |-> id, err |-> FALSE]

get_id_urls(db, url) ==
    LET ins == InsertUrl(db, url)
        sel == SelectUrl(ins.db, url)
    IN  IF ins.err THEN [db |-> ins.db, id |-> NullId, err |-> TRUE]
        ELSE IF ins.id # NullId THEN [db |-> ins.db, id |-> ins.id, err |-> FALSE]
        ELSE [db |-> ins.db, id |-> sel.id, err |-> sel.err]

(***************************************************************************)
(* Statements.  A handler is the sequence of statements it sends inside    *)
(* its transaction: "get_id_urls" keeps the id it returns in dest,         *)
(* "insert" fills ref's column of row from that id, "raise" is the place   *)
(* where the Python code raises before the next statement is sent.         *)
(***************************************************************************)
Resolve(url, dest) ==
    [op |-> "get_id_urls", table |-> "urls", rows |-> << >>, url |-> url, ref |-> dest]
Insert(table, row, ref) ==
    [op |-> "insert", table |-> table, rows |-> << row >>, url |-> NullStr, ref |-> ref]
BulkInsert(table, rows) ==
    [op |-> "insert", table |-> table, rows |-> rows, url |-> NullStr, ref |-> "none"]
Raise == [op |-> "raise", table |-> "none", rows |-> << >>, url |-> NullStr, ref |-> "none"]

\* s1[1], s2[1], s1[2], s2[2], ...: the two statements of each turn of a loop.
Interleave(s1, s2) ==
    [k \in 1..(2 * Len(s1)) |-> IF k % 2 = 1 THEN s1[(k + 1) \div 2] ELSE s2[k \div 2]]

SeqToSet(s) == {s[i] : i \in 1..Len(s)}

(***************************************************************************)
(* The row strategy's rows.                                                *)
(***************************************************************************)
RowStub(id) ==
    [id_users |-> id, url |-> NullId, screen_name |-> NullStr, name |-> NullStr,
     profile |-> NullStr, updated_at |-> NullStr]

RowUser(tweet) ==
    [id_users |-> tweet.user.id, url |-> NullId, screen_name |-> tweet.user.screen_name,
     name |-> tweet.user.name, profile |-> tweet.user.profile, updated_at |-> NullStr]

TweetRow(tweet) ==
    [id_tweets |-> tweet.id, id_users |-> tweet.user.id, created_at |-> tweet.created_at,
     in_reply_to_user_id |-> tweet.in_reply_to_user_id, text |-> tweet.text]

\* tweet.get('extended_tweet', {}).get('entities', {}).get(k, tweet['entities'][k])
RowUrls(tweet) == IF "urls" \in tweet.ext THEN tweet.x_urls ELSE tweet.urls
RowMentions(tweet) ==
    IF "user_mentions" \in tweet.ext THEN tweet.x_user_mentions ELSE tweet.user_mentions
RowHashtags(tweet) == IF "hashtags" \in tweet.ext THEN tweet.x_hashtags ELSE tweet.hashtags
RowSymbols(tweet) == IF "symbols" \in tweet.ext THEN tweet.x_symbols ELSE tweet.symbols

Tags(hashtags, symbols) ==
    [i \in 1..Len(hashtags) |-> [prefix |-> "#", text |-> hashtags[i]]]
        \o [i \in 1..Len(symbols) |-> [prefix |-> "$", text |-> symbols[i]]]

\* The author: the profile link is resolved, then the users row is inserted.
\* (A variant that sends the insert only in the else branch of the url test.)
AuthorStmtsUnderElse(tweet) ==
    IF tweet.user.url = NullStr THEN << >>
    ELSE << Resolve(tweet.user.url, "user_url"), Insert("users", RowUser(tweet), "user_url") >>

AuthorStmts(tweet) ==
    (IF tweet.user.url = NullStr THEN << >> ELSE << Resolve(tweet.user.url, "user_url") >>)
    \o << Insert("users", RowUser(tweet), "user_url") >>

\* The replied-to account's stub, then the tweets row.
TweetStmts(tweet) ==
    (IF tweet.in_reply_to_user_id # NullId
     THEN << Insert("users", RowStub(tweet.in_reply_to_user_id), "none") >>
     ELSE << >>)
    \o << Insert("tweets", TweetRow(tweet), "none") >>

\* The four loops over the entities.
EntityStmts(tweet) ==
    LET urls == RowUrls(tweet)
        mentions == RowMentions(tweet)
        tags == Tags(RowHashtags(tweet), RowSymbols(tweet))
        media == tweet.media
    IN  Interleave(
            [i \in 1..Len(urls) |-> Resolve(urls[i], "url")],
            [i \in 1..Len(urls) |->
                Insert("tweet_urls", [id_tweets |-> tweet.id, id_urls |-> NullId], "url")])
        \o Interleave(
            [i \in 1..Len(mentions) |-> Insert("users", RowStub(mentions[i].id), "none")],
            [i \in 1..Len(mentions) |->
                Insert("tweet_mentions",
                       [id_tweets |-> tweet.id, id_users |-> mentions[i].id], "none")])
        \o [i \in 1..Len(tags) |->
                Insert("tweet_tags", [id_tweets |-> tweet.id, tag |-> tags[i]], "none")]
        \o Interleave(
            [i \in 1..Len(media) |-> Resolve(media[i].media_url, "url")],
            [i \in 1..Len(media) |->
                Insert("tweet_media",
                       [id_tweets |-> tweet.id, id_urls |-> NullId, type |-> media[i].type],
                       "url")])

\* The statements of insert_tweet's transaction, in the order the code sends them,
\* up to the place where a missing key (or place = None) makes the code raise.
RowStmts(tweet) ==
    IF "user" \in tweet.missing THEN << Raise >>
    ELSE AuthorStmts(tweet)
         \o (IF "text" \in tweet.missing \/ tweet.place = "null" THEN << Raise >>
             ELSE TweetStmts(tweet)
                  \o (IF "entities" \in tweet.missing THEN << Raise >>
                      ELSE EntityStmts(tweet)))

(***************************************************************************)
(* Running statements in one session.  st is the session's view of the     *)
(* store with the two Python variables user_url_id and url_id / media_id.  *)
(***************************************************************************)
Bind(s, row, st) ==
    CASE s.ref = "user_url" -> [row EXCEPT !.url = st.user_url_id]
      [] s.ref = "url" -> [row EXCEPT !.id_urls = st.url_id]
      [] OTHER -> row

\* One multi-row INSERT ... ON CONFLICT DO NOTHING: the rows in order.
RECURSIVE InsertRows(_, _, _, _)
InsertRows(db, table, rows, i) ==
    IF i > Len(rows) THEN [db |-> db, err |-> FALSE]
    ELSE LET r == InsertIfAbsent(db, table, rows[i])
         IN  IF r.err THEN [db |-> db, err |-> TRUE]
             ELSE InsertRows(r.db, table, rows, i + 1)

\* failAt = k > 0: the store raises when statement k is sent; 0: it never does.
RECURSIVE Exec(_, _, _, _, _)
Exec(st, stmts, i, failAt, log) ==
    IF i > Len(stmts) THEN [db |-> st.db, err |-> FALSE, log |-> log]
    ELSE IF i = failAt \/ stmts[i].op = "raise"
    THEN [db |-> st.db, err |-> TRUE, log |-> log]
    ELSE
    LET s == stmts[i] IN
    IF s.op = "get_id_urls"
    THEN LET r == get_id_urls(st.db, s.url)
             entry == [table |-> "urls", rows |-> << [id_urls |-> r.id, url |-> s.url] >>,
                       new |-> r.db.urls # st.db.urls]
         IN  IF r.err THEN [db |-> r.db, err |-> TRUE, log |-> log]
             ELSE Exec([db |-> r.db,
                        user_url_id |-> IF s.ref = "user_url" THEN r.id ELSE st.user_url_id,
                        url_id |-> IF s.ref = "url" THEN r.id ELSE st.url_id],
                       stmts, i + 1, failAt, Append(log, entry))
    ELSE LET rows == [k \in 1..Len(s.rows) |-> Bind(s, s.rows[k], st)]
             r == InsertRows(st.db, s.table, rows, 1)
             entry == [table |-> s.table, rows |-> rows,
                       new |-> r.db[s.table] # st.db[s.table]]
         IN  IF r.err THEN [db |-> st.db, err |-> TRUE, log |-> log]
             ELSE Exec([st EXCEPT !.db = r.db], stmts, i + 1, failAt, Append(log, entry))

Session(db) == [db |-> db, user_url_id |-> NullId, url_id |-> NullId]

\* No transaction around the statements: what was written stays.
NoRollback(snapshot, work) == work

\* ROLLBACK: the rows go back to the snapshot; a sequence is never rolled back.
Rollback(snapshot, work) == [snapshot EXCEPT !.url_seq = work.url_seq]

(***************************************************************************)
(* insert_tweet: the existence pre-check, then one transaction.            *)
(***************************************************************************)
\* The loader without its pre-check.
NeverLoaded(db, id) == FALSE

AlreadyLoaded(db, id) == \E x \in db.tweets : x.id_tweets = id

\* clean_dict and the with connection.begin() block.
insert_tweet_transaction(db, tweet, failAt) ==
    LET r == Exec(Session(db), RowStmts(tweet), 1, failAt, << >>)
    IN  IF r.err
        THEN [db |-> Rollback(db, r.db), outcome |-> "error", began |-> TRUE,
              log |-> r.log]
        ELSE [db |-> r.db, outcome |-> "loaded", began |-> TRUE, log |-> r.log]

insert_tweet(db, tweet, failAt) ==
    IF "id" \in tweet.missing
    THEN [db |-> db, outcome |-> "error", began |-> FALSE, log |-> << >>]
    ELSE IF AlreadyLoaded(db, tweet.id)
    THEN [db |-> db, outcome |-> "skipped", began |-> FALSE, log |-> << >>]
    ELSE insert_tweet_transaction(db, tweet, failAt)

\* insert_tweet with lines 70-77 taken out.
insert_tweet_unchecked(db, tweet, failAt) ==
    IF "id" \in tweet.missing
    THEN [db |-> db, outcome |-> "error", began |-> FALSE, log |-> << >>]
    ELSE insert_tweet_transaction(db, tweet, failAt)

(***************************************************************************)
(* The batch strategy's rows and _insert_tweets.                           *)
(***************************************************************************)
BatchUser(tweet) ==
    [id_users |-> tweet.user.id, url |-> tweet.user.url,
     screen_name |-> tweet.user.screen_name, name |-> tweet.user.name,
     profile |-> tweet.user.profile, updated_at |-> tweet.created_at]

BatchReplyStub(tweet) ==
    [id_users |-> tweet.in_reply_to_user_id, url |-> NullStr,
     screen_name |-> tweet.in_reply_to_screen_name, name |-> NullStr,
     profile |-> NullStr, updated_at |-> NullStr]

BatchMentionStub(m) ==
    [id_users |-> m.id, url |-> NullStr, screen_name |-> m.screen_name, name |-> m.name,
     profile |-> NullStr, updated_at |-> NullStr]

\* try: tweet['extended_tweet']['entities'][k]  except KeyError: tweet['entities'][k]
BatchUrls(tweet) == IF "urls" \in tweet.ext THEN tweet.x_urls ELSE tweet.urls
BatchMentions(tweet) ==
    IF "user_mentions" \in tweet.ext THEN tweet.x_user_mentions ELSE tweet.user_mentions
\* hashtags and symbols share one try block
BatchTagsFromExt(tweet) == {"hashtags", "symbols"} \subseteq tweet.ext
BatchHashtags(tweet) == IF BatchTagsFromExt(tweet) THEN tweet.x_hashtags ELSE tweet.hashtags
BatchSymbols(tweet) == IF BatchTagsFromExt(tweet) THEN tweet.x_symbols ELSE tweet.symbols

\* STEP 1 raises on this record, before any statement is sent.
BatchRaises(tweet) ==
    \/ tweet.missing \cap {"id", "user", "text"} # {}
    \/ /\ "entities" \in tweet.missing
       /\ ~ ({"urls", "user_mentions"} \subseteq tweet.ext /\ BatchTagsFromExt(tweet))

RECURSIVE Flatten(_)
Flatten(ss) == IF ss = << >> THEN << >> ELSE Head(ss) \o Flatten(Tail(ss))

PerTweet(batch, F(_)) == Flatten([i \in 1..Len(batch) |-> F(batch[i])])

ReplyStubsOf(tweet) ==
    IF tweet.in_reply_to_user_id # NullId THEN << BatchReplyStub(tweet) >> ELSE << >>
MentionStubsOf(tweet) ==
    LET ms == BatchMentions(tweet) IN [i \in 1..Len(ms) |-> BatchMentionStub(ms[i])]
MentionRowsOf(tweet) ==
    LET ms == BatchMentions(tweet)
    IN  [i \in 1..Len(ms) |-> [id_tweets |-> tweet.id, id_users |-> ms[i].id]]
TagRowsOf(tweet) ==
    LET tags == Tags(BatchHashtags(tweet), BatchSymbols(tweet))
    IN  [i \in 1..Len(tags) |-> [id_tweets |-> tweet.id, tag |-> tags[i]]]
MediaRowsOf(tweet) ==
    [i \in 1..Len(tweet.media) |->
        [id_tweets |-> tweet.id, url |-> tweet.media[i].media_url,
         type |-> tweet.media[i].type]]
UrlRowsOf(tweet) ==
    LET urls == BatchUrls(tweet)
    IN  [i \in 1..Len(urls) |-> [id_tweets |-> tweet.id, url |-> urls[i]]]

\* _bulk_insert_sql: a ValueError for no row and for rows whose key sets differ,
\* else the one multi-row INSERT ... ON CONFLICT DO NOTHING.
_bulk_insert_sql(table, rows) ==
    IF rows = << >> \/ \E i \in 1..Len(rows) : DOMAIN rows[i] # DOMAIN rows[1]
    THEN Raise
    ELSE BulkInsert(table, rows)

\* bulk_insert sends nothing for an empty list.
Bulk(table, rows) == IF Len(rows) = 0 THEN << >> ELSE << _bulk_insert_sql(table, rows) >>

\* The seven lists STEP 1 builds, in the order STEP 2 hands them to bulk_insert.
GroupedRowSets(batch) ==
    << [table |-> "users", rows |-> [i \in 1..Len(batch) |-> BatchUser(batch[i])]],
       [table |-> "users", rows |-> PerTweet(batch, ReplyStubsOf)],
       [table |-> "users", rows |-> PerTweet(batch, MentionStubsOf)],
       [table |-> "tweet_mentions", rows |-> PerTweet(batch, MentionRowsOf)],
       [table |-> "tweet_tags", rows |-> PerTweet(batch, TagRowsOf)],
       [table |-> "tweet_media", rows |-> PerTweet(batch, MediaRowsOf)],
       [table |-> "tweet_urls", rows |-> PerTweet(batch, UrlRowsOf)] >>

\* A variant of STEP 2 that sends the stub accounts before the authors.
BatchStmtsStubsFirst(batch) ==
    LET g == GroupedRowSets(batch)
        order == << 2, 3, 1, 4, 5, 6, 7 >>
    IN  Flatten([k \in 1..Len(g) |-> Bulk(g[order[k]].table, g[order[k]].rows)])
        \o << BulkInsert("tweets", [i \in 1..Len(batch) |-> TweetRow(batch[i])]) >>

\* STEP 2: the grouped inserts in the order the code sends them.
BatchStmts(batch) ==
    LET g == GroupedRowSets(batch)
    IN  Flatten([k \in 1..Len(g) |-> Bulk(g[k].table, g[k].rows)])
        \o << BulkInsert("tweets", [i \in 1..Len(batch) |-> TweetRow(batch[i])]) >>

\* One call of _insert_tweets on the connection whose view of the store is work.
insert_tweets_batch(work, batch, failAt) ==
    IF \E i \in 1..Len(batch) : BatchRaises(batch[i])
    THEN [db |-> work, outcome |-> "error", began |-> FALSE, log |-> << >>]
    ELSE LET r == Exec(Session(work), BatchStmts(batch), 1, failAt, << >>)
         IN  [db |-> r.db, outcome |-> IF r.err THEN "error" ELSE "loaded",
              began |-> TRUE, log |-> r.log]

\* batch(iterable, n): for ndx in range(0, l, n): yield iterable[ndx:min(ndx + n, l)]
RECURSIVE batch_from(_, _, _)
batch_from(iterable, n, ndx) ==
    LET l == Len(iterable)
    IN  IF ndx >= l THEN << >>
        ELSE << SubSeq(iterable, ndx + 1, IF ndx + n < l THEN ndx + n ELSE l) >>
             \o batch_from(iterable, n, ndx + n)

\* A variant that yields the full slices only.
batch_full_slices(iterable, n) ==
    [k \in 1..(Len(iterable) \div n) |-> SubSeq(iterable, (k - 1) * n + 1, k * n)]

batch(iterable, n) == batch_from(iterable, n, 0)

\* The loop of insert_tweets over batches, inside the transaction of __main__ whose
\* view of the store is view: the view after the last batch, or, when a batch fails,
\* the committed store (everything the transaction wrote is rolled back).
RECURSIVE RunBatches(_, _, _)
RunBatches(committed, view, batches) ==
    IF batches = << >> THEN view
    ELSE LET r == insert_tweets_batch(view, Head(batches), 0)
         IN  IF r.outcome = "error" THEN Rollback(committed, r.db)
             ELSE RunBatches(committed, r.db, Tail(batches))

\* The archive members (one list of tweets each) the batch loader may be given.
Files ==
    {<< T1, T2 >>, << T2, T1 >>, << T3, T1, T2 >>, << T1, T4 >>, << T1b, T1, T3 >>, << T2, T2 >>,
     << T5 >>}

(***************************************************************************)
(* The state of a sequence of runs of one loader against one store.        *)
(***************************************************************************)
VARIABLES
    strategy,    \* "row" or "batch": the loader, and the schema, of this store
    db,          \* the committed store
    work,        \* the store as the running loader's connection sees it
    run,         \* "idle", "running" or "failed" (the exception left the loader)
    ops,         \* row strategy: handler calls so far; batch strategy: files opened
    last,        \* the last handler call: its input, its outcome, the store before it
    returned,    \* url -> the ids get_id_urls returned in calls that committed
    batch_size,  \* batch strategy: --batch_size of the run
    pending,     \* batch strategy: the batches of the current file not yet inserted
    completed,   \* batch strategy: tweet ids of the batches this run has finished
    proc,        \* concurrent row loaders: each one's input, position and transaction
    call         \* a helper function called on its own: its arguments and its result

vars ==
    << strategy, db, work, run, ops, last, returned, batch_size, pending, completed, proc,
       call >>
seqvars == << work, run, ops, last, returned, batch_size, pending, completed, call >>

Procs == {1, 2}
NoWrites == [t \in Tables |-> {}]
Idle(input) ==
    [input |-> input, pos |-> 1, pc |-> IF input = << >> THEN "done" ELSE "check", i |-> 1,
     writes |-> NoWrites, user_url_id |-> NullId, url_id |-> NullId]

\* No helper is being called on its own.
NoHelper == [fn |-> "none", state |-> "none"]

NoCall ==
    [kind |-> "none", tweets |-> << >>, outcome |-> "none", began |-> FALSE,
     log |-> << >>, before |-> EmptyDb]

Init ==
    /\ strategy \in {"row", "batch"}
    /\ db = EmptyDb
    /\ work = EmptyDb
    /\ run = "idle"
    /\ ops = 0
    /\ last = NoCall
    /\ returned = [u \in URLs |-> {}]
    /\ batch_size = 1
    /\ pending = << >>
    /\ completed = {}
    /\ proc = [p \in Procs |-> Idle(<< >>)]
    /\ call = NoHelper

\* The ids the get_id_urls calls of a log returned for url u.
IdsIn(log, u) ==
    {log[i].rows[1].id_urls :
        i \in {j \in 1..Len(log) : log[j].table = "urls" /\ log[j].rows[1].url = u}}

\* The loader starts: __main__ parses its arguments and connects (and, in the batch
\* loader, opens its transaction).
StartRun(n) ==
    /\ run \in {"idle", "failed"}
    /\ run' = "running"
    /\ work' = db
    /\ batch_size' = IF strategy = "batch" THEN n ELSE batch_size
    /\ pending' = << >>
    /\ completed' = {}
    /\ UNCHANGED << strategy, db, ops, last, returned, proc, call >>

\* load_tweets.py: one turn of the loop of __main__, insert_tweet(connection, tweet).
RowLoad(tweet, failAt) ==
    /\ strategy = "row"
    /\ run = "running"
    /\ ops < MaxOps
    /\ LET r == insert_tweet(db, tweet, failAt)
       IN  /\ db' = r.db
           /\ work' = r.db
           /\ run' = IF r.outcome = "error" THEN "failed" ELSE "running"
           /\ last' = [kind |-> "row", tweets |-> << tweet >>, outcome |-> r.outcome,
                       began |-> r.began, log |-> r.log, before |-> db]
           /\ returned' = [u \in URLs |->
                             IF r.outcome = "loaded" THEN returned[u] \cup IdsIn(r.log, u)
                             ELSE returned[u]]
    /\ ops' = ops + 1
    /\ UNCHANGED << strategy, batch_size, pending, completed, proc, call >>

\* get_id_urls(url, connection) called on its own: the statement autocommits.
ResolveUrl(url) ==
    /\ strategy = "row"
    /\ run = "running"
    /\ ops < MaxOps
    /\ LET r == get_id_urls(db, url)
       IN  /\ ~ r.err
           /\ db' = r.db
           /\ work' = r.db
           /\ last' = [kind |-> "resolve", tweets |-> << >>, outcome |-> "loaded",
                       began |-> FALSE,
                       log |-> << [table |-> "urls",
                                   rows |-> << [id_urls |-> r.id, url |-> url] >>,
                                   new |-> r.db.urls # db.urls] >>,
                       before |-> db]
           /\ returned' = [returned EXCEPT ![url] = @ \cup {r.id}]
    /\ ops' = ops + 1
    /\ UNCHANGED << strategy, run, batch_size, pending, completed, proc, call >>

\* load_tweets_batch.py: __main__ reads the next archive member, and insert_tweets
\* cuts it into batches.
OpenFile(tweets) ==
    /\ strategy = "batch"
    /\ run = "running"
    /\ pending = << >>
    /\ ops < MaxFiles
    /\ pending' = batch(tweets, batch_size)
    /\ ops' = ops + 1
    /\ UNCHANGED << strategy, db, work, run, last, returned, batch_size, completed, proc, call >>

\* load_tweets_batch.py: one call of _insert_tweets inside the transaction of __main__.
\* Its own begin() is a marker: finishing it commits nothing, failing it rolls back
\* the transaction of __main__ and the exception ends the run.
BatchLoad(failAt) ==
    /\ strategy = "batch"
    /\ run = "running"
    /\ pending # << >>
    /\ LET r == insert_tweets_batch(work, Head(pending), failAt)
       IN  /\ work' = IF r.outcome = "error" THEN Rollback(db, r.db) ELSE r.db
           /\ run' = IF r.outcome = "error" THEN "failed" ELSE "running"
           /\ completed' = IF r.outcome = "error" THEN completed
                           ELSE completed \cup {t.id : t \in SeqToSet(Head(pending))}
           /\ last' = [kind |-> "batch", tweets |-> Head(pending), outcome |-> r.outcome,
                       began |-> r.began, log |-> r.log, before |-> work]
    /\ pending' = Tail(pending)
    /\ UNCHANGED << strategy, db, ops, returned, batch_size, proc, call >>

\* The loop of __main__ ends; the batch loader's transaction commits.
EndRun ==
    /\ run = "running"
    /\ pending = << >>
    /\ run' = "idle"
    /\ db' = work
    /\ UNCHANGED << strategy, work, ops, last, returned, batch_size, pending, completed, proc, call >>

\* Where the store may raise in the next batch: nowhere (0) or at one of its statements.
BatchFailPoints ==
    IF pending = << >> THEN {} ELSE 0..Len(BatchStmts(Head(pending)))

Next ==
    \/ \E n \in 1..MaxBatch : StartRun(n)
    \/ \E tweet \in Records : \E failAt \in 0..Len(RowStmts(tweet)) : RowLoad(tweet, failAt)
    \/ \E url \in URLs : ResolveUrl(url)
    \/ \E tweets \in Files : OpenFile(tweets)
    \/ \E failAt \in BatchFailPoints : BatchLoad(failAt)
    \/ EndRun

Spec == Init /\ [][Next]_vars

AllBatches == UNION {SeqToSet(batch(f, n)) : f \in Files, n \in 1..MaxBatch}

(***************************************************************************)
(* C1  Idempotence in both strategies: from every reachable store, loading *)
(* a record twice in a row leaves every relation with the rows that        *)
(* loading it once leaves.  Row strategy: insert_tweet(r); insert_tweet(r).*)
(* Batch strategy: the same batch twice, in one run (one transaction of    *)
(* __main__) and in two runs.                                              *)
(***************************************************************************)
Idempotence ==
    /\ strategy = "row" =>
         \A t \in Records :
            LET once == insert_tweet(db, t, 0).db
                twice == insert_tweet(once, t, 0).db
            IN  Rows(twice) = Rows(once)
    /\ strategy = "batch" =>
         \A b \in AllBatches :
            LET once == RunBatches(db, work, << b >>)
            IN  /\ Rows(RunBatches(db, work, << b, b >>)) = Rows(once)
                /\ Rows(RunBatches(once, once, << b >>)) = Rows(once)

\* A record is loaded again: the row loader finds its own tweets row and skips, or
\* a batch whose tweets the store already holds is inserted again and adds no row.
IdempotenceWitnessRow ==
    /\ last.kind = "row" /\ last.outcome = "skipped"
    /\ TweetRow(last.tweets[1]) \in db.tweets
IdempotenceWitnessBatch ==
    /\ last.kind = "batch" /\ last.outcome = "loaded"
    /\ \A i \in 1..Len(last.tweets) : TweetRow(last.tweets[i]) \in last.before.tweets
    /\ \A i \in 1..Len(last.log) : ~ last.log[i].new
IdempotenceWitness == IdempotenceWitnessRow \/ IdempotenceWitnessBatch

(***************************************************************************)
(* C2  Order-independence: loading the same records in another order ends  *)
(* in the same contents of every relation, users' attributes included.     *)
(* Stated for two well-formed records with different ids (row strategy)    *)
(* and for two batches in one run (batch strategy).                        *)
(***************************************************************************)
WellFormed(t) == t.missing = {} /\ t.place # "null"

OrderIndependence ==
    /\ strategy = "row" =>
         \A t1, t2 \in {t \in Records : WellFormed(t)} :
            t1.id # t2.id =>
               Rows(insert_tweet(insert_tweet(db, t1, 0).db, t2, 0).db)
                 = Rows(insert_tweet(insert_tweet(db, t2, 0).db, t1, 0).db)
    /\ strategy = "batch" =>
         \A b1, b2 \in AllBatches :
            Rows(RunBatches(db, work, << b1, b2 >>)) = Rows(RunBatches(db, work, << b2, b1 >>))

\* The part of C2 about the users relation alone.
OrderIndependenceOfUsers ==
    strategy = "row" =>
       \A t1, t2 \in {t \in Records : WellFormed(t)} :
          t1.id # t2.id =>
             insert_tweet(insert_tweet(db, t1, 0).db, t2, 0).db.users
               = insert_tweet(insert_tweet(db, t2, 0).db, t1, 0).db.users

(***************************************************************************)
(* C3  Stub-then-hydrate: when insert_tweet loads a record whose author    *)
(* the store holds as a stub, the store ends with one users row for the    *)
(* author and the row carries the author's attributes.                     *)
(***************************************************************************)
UsersWithId(d, id) == {u \in d.users : u.id_users = id}

StubThenHydrate ==
    (last.kind = "row" /\ last.outcome = "loaded") =>
       LET t == last.tweets[1]
       IN  RowStub(t.user.id) \in last.before.users =>
              /\ Cardinality(UsersWithId(db, t.user.id)) = 1
              /\ \A u \in UsersWithId(db, t.user.id) :
                    /\ u.screen_name = t.user.screen_name
                    /\ u.name = t.user.name
                    /\ u.profile = t.user.profile

(***************************************************************************)
(* C4  Link collapse: however many times get_id_urls(u) has been called,   *)
(* alone or inside insert_tweet calls that committed, and whatever other   *)
(* urls were resolved in between, urls holds exactly one row for u and     *)
(* every one of the calls returned that row's id.                          *)
(***************************************************************************)
UrlRows(d, u) == {x \in d.urls : x.url = u}

LinkCollapse ==
    \A u \in URLs :
       returned[u] # {} =>
          /\ Cardinality(UrlRows(db, u)) = 1
          /\ returned[u] = {x.id_urls : x \in UrlRows(db, u)}

\* get_id_urls(u) is called for a url that already has its row, after another url was
\* resolved, and returns the id the earlier call returned.
LinkCollapseWitness ==
    /\ last.kind = "resolve"
    /\ ~ last.log[1].new
    /\ returned[last.log[1].rows[1].url] = {last.log[1].rows[1].id_urls}
    /\ \E x \in db.urls : x.id_urls > last.log[1].rows[1].id_urls

(***************************************************************************)
(* C5  Row-strategy atomicity: when insert_tweet fails after its           *)
(* transaction opened, the committed relations are what they were before   *)
(* the call (nothing of the record stays, nothing earlier is lost), and    *)
(* the run has failed: until a new run starts no record is loaded.         *)
(***************************************************************************)
RowAtomicity ==
    /\ [](last.kind = "row" /\ last.outcome = "error" => Rows(db) = Rows(last.before))
    /\ [][(ops' = ops + 1 /\ last'.kind = "row" /\ last'.outcome = "error")
            => run' = "failed"]_vars
    /\ [][run = "failed" => UNCHANGED << db, last >>]_vars

\* insert_tweet fails after it has inserted rows, in a store that holds an earlier
\* record, and the run has stopped.
RowAtomicityWitness ==
    /\ last.kind = "row" /\ last.outcome = "error" /\ last.began
    /\ \E i \in 1..Len(last.log) : last.log[i].new
    /\ last.before.tweets # {}
    /\ run = "failed"

(***************************************************************************)
(* C6  Batch transaction boundary: when a batch fails, the rows of the     *)
(* batches the run finished before it are committed.                       *)
(***************************************************************************)
BatchesCommitOnTheirOwn ==
    (strategy = "batch" /\ run = "failed") =>
       \A id \in completed : \E x \in db.tweets : x.id_tweets = id

(***************************************************************************)
(* C8  Author reference: in every committed state every tweets row's       *)
(* id_users is the id of a users row, and in the handler that inserted the *)
(* tweets row the insert of the author's users row was sent before it.     *)
(***************************************************************************)
AuthorSentBefore(log) ==
    \A i \in 1..Len(log) :
       log[i].table = "tweets" =>
          \A k \in 1..Len(log[i].rows) :
             \E j \in 1..(i - 1) :
                /\ log[j].table = "users"
                /\ \E m \in 1..Len(log[j].rows) :
                      log[j].rows[m].id_users = log[i].rows[k].id_users

AuthorReference ==
    /\ \A t \in db.tweets : \E u \in db.users : u.id_users = t.id_users
    /\ AuthorSentBefore(last.log)

\* A handler has written a tweets row while the store holds a tweet of an author
\* without a profile link.
AuthorReferenceWitness ==
    /\ \E t \in db.tweets : t.id_users = Bob1.id
    /\ \E i \in 1..Len(last.log) : last.log[i].table = "tweets"
    /\ last.outcome = "loaded"

HasTweetsRow(d, id) == \E x \in d.tweets : x.id_tweets = id

RowSkip ==
    strategy = "row" =>
       \A t \in Records : \A failAt \in 0..Len(RowStmts(t)) :
          ("id" \notin t.missing /\ HasTweetsRow(db, t.id)) =>
             LET r == insert_tweet(db, t, failAt)
             IN  /\ r.outcome = "skipped"
                 /\ ~ r.began
                 /\ r.log = << >>
                 /\ r.db = db

\* insert_tweet skipped a record that shares its id with a stored tweet and whose
\* content (text, links, mentions) the store does not hold.
RowSkipWitness ==
    /\ last.kind = "row" /\ last.outcome = "skipped"
    /\ db = last.before
    /\ TweetRow(last.tweets[1]) \notin db.tweets
    /\ \E i \in 1..Len(last.tweets[1].urls) : UrlRows(db, last.tweets[1].urls[i]) = {}

(***************************************************************************)
(* Concurrent runs of the row loader: every process is one load_tweets.py  *)
(* with its own connection, and the statements of the processes interleave.*)
(* The store runs each statement at READ COMMITTED: a statement sees what  *)
(* is committed and what its own transaction wrote; an INSERT ... ON       *)
(* CONFLICT DO NOTHING whose key another open transaction has inserted     *)
(* waits for that transaction to end; two transactions waiting for each    *)
(* other are a deadlock, which the store ends by failing one of them.      *)
(***************************************************************************)
ConcInputs == {<< T1 >>, << T2 >>, << T1, T2 >>, << T3, T1 >>}

InitConc ==
    /\ strategy = "row"
    /\ db = EmptyDb
    /\ work = EmptyDb
    /\ run = "idle"
    /\ ops = 0
    /\ last = NoCall
    /\ returned = [u \in URLs |-> {}]
    /\ batch_size = 1
    /\ pending = << >>
    /\ completed = {}
    /\ proc \in [Procs -> {Idle(input) : input \in ConcInputs}]
    /\ call = NoHelper

CurTweet(p) == proc[p].input[proc[p].pos]
CurStmts(p) == RowStmts(CurTweet(p))

\* What a statement of p sees.
View(p) ==
    [users |-> db.users \cup proc[p].writes.users,
     tweets |-> db.tweets \cup proc[p].writes.tweets,
     urls |-> db.urls \cup proc[p].writes.urls,
     tweet_urls |-> db.tweet_urls \cup proc[p].writes.tweet_urls,
     tweet_mentions |-> db.tweet_mentions \cup proc[p].writes.tweet_mentions,
     tweet_tags |-> db.tweet_tags \cup proc[p].writes.tweet_tags,
     tweet_media |-> db.tweet_media \cup proc[p].writes.tweet_media,
     url_seq |-> db.url_seq]

WritesOf(p, view) == [t \in Tables |-> view[t] \ db[t]]

\* The row the next statement of p tries to insert.
NextRow(p) ==
    LET s == CurStmts(p)[proc[p].i]
    IN  IF s.op = "get_id_urls" THEN [id_urls |-> db.url_seq + 1, url |-> s.url]
        ELSE Bind(s, s.rows[1], proc[p])

\* The open transactions the next statement of p has to wait for.
WaitsFor(p) ==
    IF proc[p].pc = "stmt" /\ proc[p].i <= Len(CurStmts(p))
          /\ CurStmts(p)[proc[p].i].op # "raise"
    THEN LET table == CurStmts(p)[proc[p].i].table
         IN  IF Conflicts(View(p)[table], table, NextRow(p)) THEN {}
             ELSE {q \in Procs \ {p} : Conflicts(proc[q].writes[table], table, NextRow(p))}
    ELSE {}

Advance(p, rec) ==
    IF rec.pos + 1 > Len(rec.input)
    THEN [rec EXCEPT !.pos = @ + 1, !.pc = "done", !.writes = NoWrites]
    ELSE [rec EXCEPT !.pos = @ + 1, !.pc = "check", !.writes = NoWrites]

\* insert_tweet's pre-check (it reads committed rows only), then connection.begin().
CCheck(p) ==
    /\ proc[p].pc = "check"
    /\ proc' = [proc EXCEPT ![p] =
                  IF AlreadyLoaded(db, CurTweet(p).id) THEN Advance(p, @)
                  ELSE [@ EXCEPT !.pc = "stmt", !.i = 1, !.user_url_id = NullId,
                                 !.url_id = NullId]]
    /\ UNCHANGED << strategy, db, seqvars >>

\* The next INSERT of the transaction, when it does not have to wait.
CInsert(p) ==
    /\ proc[p].pc = "stmt"
    /\ proc[p].i <= Len(CurStmts(p))
    /\ CurStmts(p)[proc[p].i].op = "insert"
    /\ WaitsFor(p) = {}
    /\ LET s == CurStmts(p)[proc[p].i]
           r == InsertIfAbsent(View(p), s.table, NextRow(p))
       IN  proc' = [proc EXCEPT ![p] =
                      IF r.err THEN [@ EXCEPT !.pc = "failed", !.writes = NoWrites]
                      ELSE [@ EXCEPT !.i = @ + 1, !.writes = WritesOf(p, r.db)]]
    /\ UNCHANGED << strategy, db, seqvars >>

\* The first statement of get_id_urls, when it does not have to wait.
CInsertUrl(p) ==
    /\ proc[p].pc = "stmt"
    /\ proc[p].i <= Len(CurStmts(p))
    /\ CurStmts(p)[proc[p].i].op = "get_id_urls"
    /\ WaitsFor(p) = {}
    /\ LET s == CurStmts(p)[proc[p].i]
           r == InsertUrl(View(p), s.url)
       IN  /\ db' = [db EXCEPT !.url_seq = r.db.url_seq]
           /\ proc' = [proc EXCEPT ![p] =
                         IF r.err THEN [@ EXCEPT !.pc = "failed", !.writes = NoWrites]
                         ELSE IF r.id = NullId THEN [@ EXCEPT !.pc = "select"]
                         ELSE [@ EXCEPT !.i = @ + 1, !.writes = WritesOf(p, r.db),
                                        !.user_url_id =
                                            IF s.ref = "user_url" THEN r.id ELSE @,
                                        !.url_id = IF s.ref = "url" THEN r.id ELSE @]]
    /\ UNCHANGED << strategy, seqvars >>

\* The second statement of get_id_urls: the lookup after an insert that returned no row.
CSelectUrl(p) ==
    /\ proc[p].pc = "select"
    /\ LET s == CurStmts(p)[proc[p].i]
           r == SelectUrl(View(p), s.url)
       IN  proc' = [proc EXCEPT ![p] =
                      IF r.err THEN [@ EXCEPT !.pc = "failed", !.writes = NoWrites]
                      ELSE [@ EXCEPT !.pc = "stmt", !.i = @ + 1,
                                     !.user_url_id = IF s.ref = "user_url" THEN r.id ELSE @,
                                     !.url_id = IF s.ref = "url" THEN r.id ELSE @]]
    /\ UNCHANGED << strategy, db, seqvars >>

\* The with block ends: COMMIT, and the loop of __main__ goes to the next line.
CCommit(p) ==
    /\ proc[p].pc = "stmt"
    /\ proc[p].i > Len(CurStmts(p))
    /\ db' = [View(p) EXCEPT !.url_seq = db.url_seq]
    /\ proc' = [proc EXCEPT ![p] = Advance(p, @)]
    /\ UNCHANGED << strategy, seqvars >>

\* p waits for q and q waits for p: the store raises "deadlock detected" in p, the
\* with block rolls p's transaction back and the exception ends p's run.
CDeadlock(p) ==
    /\ \E q \in WaitsFor(p) : p \in WaitsFor(q)
    /\ proc' = [proc EXCEPT ![p] = [@ EXCEPT !.pc = "failed", !.writes = NoWrites]]
    /\ UNCHANGED << strategy, db, seqvars >>

NextConc ==
    \E p \in Procs :
        \/ CCheck(p)
        \/ CInsert(p)
        \/ CInsertUrl(p)
        \/ CSelectUrl(p)
        \/ CCommit(p)
        \/ CDeadlock(p)

SpecConc == InitConc /\ [][NextConc]_vars

(***************************************************************************)
(* C7  Concurrent runs are safe: with well-formed inputs no run fails, no  *)
(* relation ever holds two rows with one key, and when all runs are done   *)
(* the relations hold what loading the same records one after the other,   *)
(* in some order that keeps each run's own order, leaves (a link being     *)
(* identified by its url, not by the surrogate id it was given).           *)
(***************************************************************************)
UniqueKeys(d) ==
    \A t \in Tables : \A x, y \in d[t] : Key(t, x) = Key(t, y) => x = y

UrlOf(d, id) == IF id = NullId THEN {} ELSE {x.url : x \in {y \in d.urls : y.id_urls = id}}

\* The relations with every id_urls replaced by the url it stands for.
ByUrl(d) ==
    [users |-> {[u EXCEPT !.url = UrlOf(d, u.url)] : u \in d.users},
     tweets |-> d.tweets,
     urls |-> {x.url : x \in d.urls},
     tweet_urls |-> {[x EXCEPT !.id_urls = UrlOf(d, x.id_urls)] : x \in d.tweet_urls},
     tweet_mentions |-> d.tweet_mentions,
     tweet_tags |-> d.tweet_tags,
     tweet_media |-> {[x EXCEPT !.id_urls = UrlOf(d, x.id_urls)] : x \in d.tweet_media}]

RECURSIVE LoadAll(_, _)
LoadAll(d, tweets) ==
    IF tweets = << >> THEN d
    ELSE LoadAll(insert_tweet(d, Head(tweets), 0).db, Tail(tweets))

RECURSIVE Merges(_, _)
Merges(s1, s2) ==
    IF s1 = << >> THEN {s2}
    ELSE IF s2 = << >> THEN {s1}
    ELSE {<< Head(s1) >> \o m : m \in Merges(Tail(s1), s2)}
         \cup {<< Head(s2) >> \o m : m \in Merges(s1, Tail(s2))}

NoRunFails == \A p \in Procs : proc[p].pc # "failed"

UniqueKeysAlways == UniqueKeys(db)

SequentialOutcome ==
    (\A p \in Procs : proc[p].pc = "done") =>
       ByUrl(db) \in {ByUrl(LoadAll(EmptyDb, m)) : m \in Merges(proc[1].input, proc[2].input)}

ConcurrentRunsSafe == NoRunFails /\ UniqueKeysAlways /\ SequentialOutcome

(***************************************************************************)
(* C11  Grouped-insert usage error: when _insert_tweets hands bulk_insert  *)
(* a list that is empty, or whose rows do not all have the same keys, the  *)
(* call fails, and it fails before a transaction is opened.                *)
(***************************************************************************)
Malformed(rows) == rows = << >> \/ \E i \in 1..Len(rows) : DOMAIN rows[i] # DOMAIN rows[1]

GroupedInsertUsageError ==
    (last.kind = "batch" /\ ~ \E i \in 1..Len(last.tweets) : BatchRaises(last.tweets[i])) =>
       \A k \in 1..Len(GroupedRowSets(last.tweets)) :
          Malformed(GroupedRowSets(last.tweets)[k].rows) =>
             (last.outcome = "error" /\ ~ last.began)

(***************************************************************************)
(* The helper functions called on their own: the arguments are drawn in    *)
(* the initial state, one step runs the call and keeps what it returned.   *)
(***************************************************************************)
MaxLen == 5          \* the longest list given to batch
MaxN == 3            \* the largest n given to batch

storevars ==
    << strategy, db, work, run, ops, last, returned, batch_size, pending, completed, proc >>

SeqsOver(S, k) == UNION {[1..m -> S] : m \in 0..k}

BatchCalls ==
    {[fn |-> "batch", state |-> "ready", iterable |-> s, n |-> n, out |-> << >>] :
        s \in SeqsOver({"a", "b"}, MaxLen), n \in 1..MaxN}

(***************************************************************************)
(* The location of a tweet.  geo and place are "absent" (no key), "null"   *)
(* (None) or an object; a bounding box holds a list of rings, a ring is a  *)
(* list of vertices.                                                       *)
(***************************************************************************)
MaxRing == 3         \* the longest ring of a bounding box

Vertices == {<< 0, 0 >>, << 0, 1 >>}
Rings == SeqsOver(Vertices, MaxRing)
InnerRing == << << 1, 1 >>, << 1, 1 >> >>

Geos ==
    {[kind |-> "absent", coordinates |-> << >>], [kind |-> "null", coordinates |-> << >>],
     [kind |-> "obj", coordinates |-> << 1, 0 >>]}
BoundingBoxes ==
    {[kind |-> "absent", coordinates |-> << >>], [kind |-> "null", coordinates |-> << >>],
     [kind |-> "obj", coordinates |-> << >>]}
    \cup {[kind |-> "obj", coordinates |-> << r >>] : r \in Rings}
    \cup {[kind |-> "obj", coordinates |-> << r, InnerRing >>] : r \in Rings}
Places ==
    {[kind |-> k, bounding_box |-> [kind |-> "absent", coordinates |-> << >>]] :
        k \in {"absent", "null"}}
    \cup {[kind |-> "obj", bounding_box |-> b] : b \in BoundingBoxes}

NoLocation == [kind |-> "NULL", pts |-> << >>]

\* load_tweets.py: build WKT for geo.  Every exception of the point branch leads to
\* the polygon branch, every exception of the polygon branch to None.
RowWkt(tweet) ==
    IF tweet.geo.kind = "obj"
    THEN [kind |-> "POINT", pts |-> << tweet.geo.coordinates >>]
    ELSE IF /\ tweet.place.kind = "obj"
            /\ tweet.place.bounding_box.kind = "obj"
            /\ tweet.place.bounding_box.coordinates # << >>
            /\ tweet.place.bounding_box.coordinates[1] # << >>
    THEN LET ring == tweet.place.bounding_box.coordinates[1]
         IN  [kind |-> "POLYGON",
              pts |-> IF ring[1] # ring[Len(ring)] THEN Append(ring, ring[1]) ELSE ring]
    ELSE NoLocation

\* load_tweets.py, from the WKT to place_name: tweet.get('place', {}).get('full_name')
\* is an AttributeError when place is None.
RowLocation(tweet) ==
    [raised |-> tweet.place.kind = "null", geo |-> RowWkt(tweet)]

\* load_tweets_batch.py: geo_str and geo_coords.  Only TypeError is caught (geo is
\* None); a tweet without the geo key is a KeyError that leaves _insert_tweets.
BatchLocation(tweet) ==
    IF tweet.geo.kind = "absent" THEN [raised |-> TRUE, geo |-> NoLocation]
    ELSE IF tweet.geo.kind = "null" THEN [raised |-> FALSE, geo |-> NoLocation]
    ELSE [raised |-> FALSE, geo |-> [kind |-> "POINT", pts |-> << tweet.geo.coordinates >>]]

LocationCalls ==
    {[fn |-> f, state |-> "ready", tweet |-> [geo |-> g, place |-> pl],
      out |-> [raised |-> FALSE, geo |-> NoLocation]] :
        f \in {"row_location", "batch_location"}, g \in Geos, pl \in Places}

(***************************************************************************)
(* Strings and the two remove_nulls.  A string is the sequence of its      *)
(* characters, "NUL" being the character \x00; a JSON value is tagged with *)
(* its Python type.                                                        *)
(***************************************************************************)
MaxStr == 4          \* the longest string given to remove_nulls
MaxNested == 2       \* the longest string inside a value given to clean_dict

Chars == {"NUL", "\\", "x", "0"}
Strings == SeqsOver(Chars, MaxStr)
None == [type |-> "None"]
Str(chars) == [type |-> "str", v |-> chars]

\* The four characters backslash, x, 0, 0 the batch loader writes for a NUL.
EscapeSequence == << "\\", "x", "0", "0" >>

\* str.replace(old, new): the occurrences of old, left to right, not overlapping.
RECURSIVE replace(_, _, _)
replace(str, old, new) ==
    IF Len(str) < Len(old) THEN str
    ELSE IF SubSeq(str, 1, Len(old)) = old
    THEN new \o replace(SubSeq(str, Len(old) + 1, Len(str)), old, new)
    ELSE << Head(str) >> \o replace(Tail(str), old, new)

\* load_tweets.py: s.replace('\x00', '')
remove_nulls(s) ==
    IF s.type = "None" THEN None ELSE Str(replace(s.v, << "NUL" >>, << >>))

\* load_tweets_batch.py: s.replace('\x00', '\\x00')
remove_nulls_batch(s) ==
    IF s.type = "None" THEN None ELSE Str(replace(s.v, << "NUL" >>, EscapeSequence))

\* load_tweets.py: clean_dict, on dicts (their values), lists, strings, the rest.
RECURSIVE clean_dict(_)
clean_dict(d) ==
    CASE d.type = "dict" -> [type |-> "dict", v |-> [k \in DOMAIN d.v |-> clean_dict(d.v[k])]]
      [] d.type = "list" -> [type |-> "list", v |-> [i \in 1..Len(d.v) |-> clean_dict(d.v[i])]]
      [] d.type = "str" -> Str(replace(d.v, << "NUL" >>, << >>))
      [] OTHER -> d

\* The values clean_dict is given: a string, a list, a dict of a list and a string.
Nested ==
    LET strs == {Str(c) : c \in SeqsOver(Chars, MaxNested)}
    IN  strs
        \cup {[type |-> "list", v |-> << a, None >>] : a \in strs}
        \cup {[type |-> "dict",
               v |-> [text |-> a, id |-> [type |-> "int"],
                      urls |-> [type |-> "list", v |-> << [type |-> "dict", v |-> [url |-> b]] >>]]] :
                 a \in strs, b \in {Str(<< "NUL" >>), Str(<< "x", "NUL" >>)}}

\* The strings inside a value, in order.
RECURSIVE StringsIn(_)
StringsIn(d) ==
    CASE d.type = "dict" ->
            IF DOMAIN d.v = {"url"} THEN StringsIn(d.v.url)
            ELSE StringsIn(d.v.text) \o StringsIn(d.v.urls)
      [] d.type = "list" -> Flatten([i \in 1..Len(d.v) |-> StringsIn(d.v[i])])
      [] d.type = "str" -> << d.v >>
      [] OTHER -> << >>

SanitizeCalls ==
    {[fn |-> f, state |-> "ready", s |-> Str(c), out |-> None] :
        f \in {"remove_nulls", "remove_nulls_batch"}, c \in Strings}
    \cup {[fn |-> f, state |-> "ready", s |-> None, out |-> None] :
        f \in {"remove_nulls", "remove_nulls_batch"}}
    \cup {[fn |-> "clean_dict", state |-> "ready", s |-> d, out |-> None] : d \in Nested}

InitHelpers ==
    /\ strategy = "batch"
    /\ db = EmptyDb
    /\ work = EmptyDb
    /\ run = "idle"
    /\ ops = 0
    /\ last = NoCall
    /\ returned = [u \in URLs |-> {}]
    /\ batch_size = 1
    /\ pending = << >>
    /\ completed = {}
    /\ proc = [p \in Procs |-> Idle(<< >>)]
    /\ \/ call \in BatchCalls
       \/ call \in LocationCalls
       \/ call \in SanitizeCalls

\* list(batch(iterable, n))
CallBatch ==
    /\ call.fn = "batch"
    /\ call.state = "ready"
    /\ call' = [call EXCEPT !.state = "done", !.out = batch(call.iterable, call.n)]
    /\ UNCHANGED storevars

\* insert_tweet, lines 126-154, on one tweet.
CallRowLocation ==
    /\ call.fn = "row_location"
    /\ call.state = "ready"
    /\ call' = [call EXCEPT !.state = "done", !.out = RowLocation(call.tweet)]
    /\ UNCHANGED storevars

\* _insert_tweets, lines 145-174, on one tweet.
CallBatchLocation ==
    /\ call.fn = "batch_location"
    /\ call.state = "ready"
    /\ call' = [call EXCEPT !.state = "done", !.out = BatchLocation(call.tweet)]
    /\ UNCHANGED storevars

\* load_tweets.py: remove_nulls(s)
CallRemoveNulls ==
    /\ call.fn = "remove_nulls"
    /\ call.state = "ready"
    /\ call' = [call EXCEPT !.state = "done", !.out = remove_nulls(call.s)]
    /\ UNCHANGED storevars

\* load_tweets_batch.py: remove_nulls(s)
CallRemoveNullsBatch ==
    /\ call.fn = "remove_nulls_batch"
    /\ call.state = "ready"
    /\ call' = [call EXCEPT !.state = "done", !.out = remove_nulls_batch(call.s)]
    /\ UNCHANGED storevars

\* load_tweets.py: tweet = clean_dict(tweet)
CallCleanDict ==
    /\ call.fn = "clean_dict"
    /\ call.state = "ready"
    /\ call' = [call EXCEPT !.state = "done", !.out = clean_dict(call.s)]
    /\ UNCHANGED storevars

NextHelpers ==
    \/ CallBatch
    \/ CallRemoveNulls
    \/ CallRemoveNullsBatch
    \/ CallCleanDict
    \/ CallRowLocation
    \/ CallBatchLocation

SpecHelpers == InitHelpers /\ [][NextHelpers]_vars

(***************************************************************************)
(* C12  Batch partitioning: batch(s, n) with n >= 1 yields ceil(len(s)/n)  *)
(* chunks, each of 1..n elements, only the last one shorter than n, and    *)
(* the chunks in order are s; an empty s yields no chunk.                  *)
(***************************************************************************)
BatchPartitioning ==
    (call.fn = "batch" /\ call.state = "done") =>
       LET s == call.iterable
           n == call.n
           out == call.out
       IN  /\ Len(out) = (Len(s) + n - 1) \div n
           /\ \A k \in 1..Len(out) : Len(out[k]) >= 1 /\ Len(out[k]) <= n
           /\ \A k \in 1..(Len(out) - 1) : Len(out[k]) = n
           /\ Flatten(out) = s
           /\ s = << >> => out = << >>

\* batch of five elements by two: three chunks of 2, 2 and 1 elements.
BatchPartitioningWitness ==
    /\ call.fn = "batch" /\ call.state = "done"
    /\ Len(call.iterable) = 5 /\ call.n = 2
    /\ Len(call.out) = 3
    /\ Len(call.out[3]) = 1

(***************************************************************************)
(* C13  Independent extended-vs-default selection: for urls,               *)
(* user_mentions, hashtags and symbols, each on its own, the rows a        *)
(* handler sends for a record come from extended_tweet.entities.<type>     *)
(* when the record has it and from entities.<type> otherwise.              *)
(***************************************************************************)
Selected(t, type) ==
    CASE type = "urls" -> IF "urls" \in t.ext THEN t.x_urls ELSE t.urls
      [] type = "user_mentions" ->
            IF "user_mentions" \in t.ext THEN t.x_user_mentions ELSE t.user_mentions
      [] type = "hashtags" -> IF "hashtags" \in t.ext THEN t.x_hashtags ELSE t.hashtags
      [] type = "symbols" -> IF "symbols" \in t.ext THEN t.x_symbols ELSE t.symbols

\* The rows of a relation the last handler sent for tweet id.
Sent(table, id) ==
    UNION {{last.log[i].rows[k] :
               k \in {j \in 1..Len(last.log[i].rows) : last.log[i].rows[j].id_tweets = id}} :
           i \in {j \in 1..Len(last.log) : last.log[j].table = table}}

WithId(id) == {t \in SeqToSet(last.tweets) : t.id = id}

IndependentSelection ==
    (last.outcome = "loaded" /\ last.began) =>
       \A id \in {t.id : t \in SeqToSet(last.tweets)} :
          /\ (IF strategy = "row"
               THEN UNION {UrlOf(db, r.id_urls) : r \in Sent("tweet_urls", id)}
               ELSE {r.url : r \in Sent("tweet_urls", id)})
                = UNION {SeqToSet(Selected(t, "urls")) : t \in WithId(id)}
          /\ {r.id_users : r \in Sent("tweet_mentions", id)}
                = UNION {{m.id : m \in SeqToSet(Selected(t, "user_mentions"))} : t \in WithId(id)}
          /\ {r.tag : r \in Sent("tweet_tags", id)}
                = UNION {SeqToSet(Tags(Selected(t, "hashtags"), Selected(t, "symbols"))) :
                           t \in WithId(id)}

\* The same for the row strategy alone.
IndependentSelectionRow == strategy = "row" => IndependentSelection

(***************************************************************************)
(* C14  Location derivation: in both strategies the location of a record   *)
(* is a point when geo.coordinates is present; else, when the place has a  *)
(* bounding box, the polygon of the box's first ring, closed (the first    *)
(* vertex repeated at the end when the ring is open); else none.  Deriving *)
(* the location of a record never fails.                                   *)
(***************************************************************************)
HasPoint(t) == t.geo.kind = "obj"
HasRing(t) ==
    /\ t.place.kind = "obj"
    /\ t.place.bounding_box.kind = "obj"
    /\ t.place.bounding_box.coordinates # << >>
    /\ t.place.bounding_box.coordinates[1] # << >>
FirstRing(t) == t.place.bounding_box.coordinates[1]

LocationDerived(t, out) ==
    /\ ~ out.raised
    /\ HasPoint(t) => out.geo = [kind |-> "POINT", pts |-> << t.geo.coordinates >>]
    /\ (~ HasPoint(t) /\ HasRing(t)) =>
          /\ out.geo.kind = "POLYGON"
          /\ out.geo.pts[1] = out.geo.pts[Len(out.geo.pts)]
          /\ out.geo.pts \in {FirstRing(t), Append(FirstRing(t), FirstRing(t)[1])}
          /\ FirstRing(t)[1] = FirstRing(t)[Len(FirstRing(t))] => out.geo.pts = FirstRing(t)
    /\ (~ HasPoint(t) /\ ~ HasRing(t)) => out.geo = NoLocation

LocationDerivation ==
    (call.fn \in {"row_location", "batch_location"} /\ call.state = "done") =>
       LocationDerived(call.tweet, call.out)

\* What the row strategy alone keeps of it: the derived location, for every record
\* whose place is not None.
LocationDerivationRow ==
    (call.fn = "row_location" /\ call.state = "done" /\ call.tweet.place.kind # "null") =>
       LocationDerived(call.tweet, call.out)

(***************************************************************************)
(* C15  Sanitization: the row loader's remove_nulls and clean_dict return  *)
(* strings without a NUL character and no longer than the ones they were   *)
(* given; in what the batch loader's remove_nulls returns, replacing every *)
(* escape sequence by a NUL gives the string it was given.                 *)
(***************************************************************************)
HasNul(chars) == \E i \in 1..Len(chars) : chars[i] = "NUL"

StrictSanitized(in, out) == ~ HasNul(out) /\ Len(out) <= Len(in)

SanitizationStrict ==
    /\ (call.fn = "remove_nulls" /\ call.state = "done" /\ call.s.type = "str") =>
          /\ call.out.type = "str"
          /\ StrictSanitized(call.s.v, call.out.v)
    /\ (call.fn = "clean_dict" /\ call.state = "done") =>
          /\ Len(StringsIn(call.out)) = Len(StringsIn(call.s))
          /\ \A i \in 1..Len(StringsIn(call.s)) :
                StrictSanitized(StringsIn(call.s)[i], StringsIn(call.out)[i])

EscapeReversible ==
    (call.fn = "remove_nulls_batch" /\ call.state = "done" /\ call.s.type = "str") =>
       /\ call.out.type = "str"
       /\ replace(call.out.v, EscapeSequence, << "NUL" >>) = call.s.v

Sanitization == SanitizationStrict /\ EscapeReversible

\* The escape is reversible for the strings that do not hold the escape sequence.
EscapeReversibleWithoutLiteral ==
    (call.fn = "remove_nulls_batch" /\ call.state = "done" /\ call.s.type = "str"
        /\ replace(call.s.v, EscapeSequence, << >>) = call.s.v) =>
       replace(call.out.v, EscapeSequence, << "NUL" >>) = call.s.v

(***************************************************************************)
(* C16  Referenced-before-referencing write order: when a handler writes a *)
(* tweet_urls, tweet_mentions, tweet_tags or tweet_media row, the tweets   *)
(* row of its id_tweets, and the users row of its id_users or the urls row *)
(* of its id_urls, are in the store already or were written earlier by the *)
(* same handler.  (The batch loader's tweet_urls and tweet_media rows hold *)
(* the url itself and refer to no urls row.)                               *)
(***************************************************************************)
Associations == {"tweet_urls", "tweet_mentions", "tweet_tags", "tweet_media"}

\* The rows of a relation that exist when statement i of the last handler is sent.
ExistingAt(i, table) ==
    last.before[table]
    \cup UNION {SeqToSet(last.log[j].rows) :
                  j \in {m \in 1..(i - 1) : last.log[m].table = table}}

ReferencedFirst ==
    \A i \in 1..Len(last.log) :
       last.log[i].table \in Associations =>
          \A k \in 1..Len(last.log[i].rows) :
             LET r == last.log[i].rows[k]
             IN  /\ \E x \in ExistingAt(i, "tweets") : x.id_tweets = r.id_tweets
                 /\ last.log[i].table = "tweet_mentions" =>
                       \E u \in ExistingAt(i, "users") : u.id_users = r.id_users
                 /\ (strategy = "row" /\ last.log[i].table \in {"tweet_urls", "tweet_media"}) =>
                       \E u \in ExistingAt(i, "urls") : u.id_urls = r.id_urls

\* The same for the row strategy alone.
ReferencedFirstRow == strategy = "row" => ReferencedFirst

(***************************************************************************)
(* Concurrent resolvers: every process calls get_id_urls on a connection   *)
(* of its own, either outside a transaction (each of the two statements    *)
(* commits on its own) or inside one that commits after the last call, as  *)
(* insert_tweet does.  The store is the one of the concurrent loaders: an  *)
(* insert whose url another open transaction has inserted waits for it.    *)
(***************************************************************************)
MaxCalls == 2        \* get_id_urls calls of one resolver

ResolverInputs ==
    {[urls |-> us, txn |-> b] :
        us \in UNION {[1..m -> {"u1"}] : m \in 1..MaxCalls}, b \in BOOLEAN}
    \cup {[urls |-> us, txn |-> FALSE] : us \in {<< "u2", "u1" >>, << "u1", "u2" >>}}

Resolver(in) ==
    [input |-> in.urls, txn |-> in.txn, pos |-> 1, pc |-> "insert", writes |-> NoWrites,
     ids |-> << >>, looked_up |-> FALSE]

InitResolve ==
    /\ strategy = "row"
    /\ db = EmptyDb
    /\ work = EmptyDb
    /\ run = "idle"
    /\ ops = 0
    /\ last = NoCall
    /\ returned = [u \in URLs |-> {}]
    /\ batch_size = 1
    /\ pending = << >>
    /\ completed = {}
    /\ proc \in [Procs -> {Resolver(in) : in \in ResolverInputs}]
    /\ call = NoHelper

CurUrl(p) == proc[p].input[proc[p].pos]

\* The open transactions the insert of p has to wait for.
RWaitsFor(p) ==
    LET row == [id_urls |-> db.url_seq + 1, url |-> CurUrl(p)]
    IN  IF Conflicts(View(p).urls, "urls", row) THEN {}
        ELSE {q \in Procs \ {p} : Conflicts(proc[q].writes.urls, "urls", row)}

\* get_id_urls returns id: the next call, or the end of the transaction.
Return(p, rec, id) ==
    [rec EXCEPT !.ids = Append(@, id), !.pos = @ + 1,
                !.pc = IF rec.pos + 1 <= Len(rec.input) THEN "insert"
                       ELSE IF rec.txn THEN "commit" ELSE "done"]

\* get_id_urls, lines 37-46: the insert, when it does not have to wait.
RInsert(p) ==
    /\ proc[p].pc = "insert"
    /\ RWaitsFor(p) = {}
    /\ LET r == InsertUrl(View(p), CurUrl(p))
       IN  IF r.id = NullId
           THEN /\ db' = [db EXCEPT !.url_seq = r.db.url_seq]
                /\ proc' = [proc EXCEPT ![p].pc = "select"]
                /\ UNCHANGED returned
           ELSE /\ db' = IF proc[p].txn THEN [db EXCEPT !.url_seq = r.db.url_seq]
                         ELSE r.db
                /\ proc' = [proc EXCEPT ![p] =
                              Return(p, [@ EXCEPT !.writes =
                                            IF proc[p].txn
                                            THEN [@ EXCEPT !.urls = r.db.urls \ db.urls]
                                            ELSE @],
                                     r.id)]
                /\ returned' = [returned EXCEPT ![CurUrl(p)] = @ \cup {r.id}]
    /\ UNCHANGED << strategy, work, run, ops, last, batch_size, pending, completed, call >>

\* get_id_urls, lines 47-54: the lookup; res[0] of no row is a TypeError.
RSelect(p) ==
    /\ proc[p].pc = "select"
    /\ LET r == SelectUrl(View(p), CurUrl(p))
       IN  IF r.err
           THEN /\ proc' = [proc EXCEPT ![p].pc = "failed", ![p].writes = NoWrites]
                /\ UNCHANGED returned
           ELSE /\ proc' = [proc EXCEPT ![p] = Return(p, [@ EXCEPT !.looked_up = TRUE], r.id)]
                /\ returned' = [returned EXCEPT ![CurUrl(p)] = @ \cup {r.id}]
    /\ UNCHANGED << strategy, db, work, run, ops, last, batch_size, pending, completed, call >>

\* The transaction around the calls commits.
RCommit(p) ==
    /\ proc[p].pc = "commit"
    /\ db' = [View(p) EXCEPT !.url_seq = db.url_seq]
    /\ proc' = [proc EXCEPT ![p].pc = "done", ![p].writes = NoWrites]
    /\ UNCHANGED << strategy, seqvars >>

NextResolve ==
    \E p \in Procs :
        \/ RInsert(p)
        \/ RSelect(p)
        \/ RCommit(p)

SpecResolve == InitResolve /\ [][NextResolve]_vars

(***************************************************************************)
(* C17  Concurrent link resolution: however the inserts and the lookups of *)
(* several resolvers interleave, every call of get_id_urls returns an id   *)
(* (the lookup always finds a row), the calls for one url return one id,   *)
(* and urls never holds two rows for one url, committed or not.            *)
(***************************************************************************)
AllUrlRows == db.urls \cup UNION {proc[p].writes.urls : p \in Procs}

ConcurrentLinkResolution ==
    /\ \A p \in Procs :
          /\ proc[p].pc # "failed"
          /\ \A i \in 1..Len(proc[p].ids) : proc[p].ids[i] # NullId
    /\ \A u \in URLs :
          /\ Cardinality(returned[u]) <= 1
          /\ Cardinality({x \in AllUrlRows : x.url = u}) <= 1
          /\ \A p \in Procs : \A i \in 1..Len(proc[p].ids) :
                proc[p].input[i] = u => proc[p].ids[i] \in returned[u]

\* Two resolvers, one of them inside a transaction, have resolved u1: one inserted
\* the row, the other one's insert returned no row and its lookup found the id.
ConcurrentLinkResolutionWitness ==
    \E p, q \in Procs :
       /\ p # q
       /\ proc[p].pc = "done" /\ proc[q].pc = "done"
       /\ proc[p].txn /\ proc[p].input = << "u1" >> /\ ~ proc[p].looked_up
       /\ proc[q].input = << "u1" >> /\ proc[q].looked_up
       /\ proc[p].ids = proc[q].ids
       /\ Cardinality({x \in db.urls : x.url = "u1"}) = 1

(***************************************************************************)
(* The row loader next to the row loader without its pre-check: the same   *)
(* records, in the same order, are given to both; db is the store of the   *)
(* first, work the store of the second, last.tweets the records so far.    *)
(* Records that share an id are identical.                                 *)
(***************************************************************************)
MaxLoads == 3        \* records given to the two loaders

InitPrecheck ==
    /\ strategy = "row"
    /\ db = EmptyDb
    /\ work = EmptyDb
    /\ run = "idle"
    /\ ops = 0
    /\ last = NoCall
    /\ returned = [u \in URLs |-> {}]
    /\ batch_size = 1
    /\ pending = << >>
    /\ completed = {}
    /\ proc = [p \in Procs |-> Idle(<< >>)]
    /\ call = NoHelper

LoadBoth(tweet) ==
    /\ ops < MaxLoads
    /\ \A i \in 1..Len(last.tweets) : last.tweets[i].id = tweet.id => last.tweets[i] = tweet
    /\ LET r == insert_tweet(db, tweet, 0)
           u == insert_tweet_unchecked(work, tweet, 0)
       IN  /\ db' = r.db
           /\ work' = u.db
           /\ last' = [kind |-> "row", tweets |-> Append(last.tweets, tweet),
                       outcome |-> r.outcome, began |-> r.began, log |-> r.log,
                       before |-> db]
    /\ ops' = ops + 1
    /\ UNCHANGED << strategy, run, returned, batch_size, pending, completed, proc, call >>

NextPrecheck == \E tweet \in Records : LoadBoth(tweet)

SpecPrecheck == InitPrecheck /\ [][NextPrecheck]_vars

(***************************************************************************)
(* C18  The existence pre-check is only an optimization: for records that  *)
(* are identical when they share an id, the row loader without lines 70-77 *)
(* ends with the same rows in every relation as the row loader.            *)
(* As stated (PrecheckSameRows) this fails on the surrogate ids of urls;   *)
(* it holds with every link identified by its url (PrecheckOptimization).  *)
(***************************************************************************)
PrecheckSameRows == Rows(db) = Rows(work)

PrecheckOptimization == ByUrl(db) = ByUrl(work)

\* A record was given twice (skipped by the one loader, run again by the other),
\* then another record with a link not seen before was loaded by both.
PrecheckOptimizationWitness ==
    /\ Len(last.tweets) = 3
    /\ last.tweets[1] = last.tweets[2]
    /\ last.tweets[3].id # last.tweets[1].id
    /\ last.outcome = "loaded"
    /\ work.url_seq > db.url_seq
    /\ \E x \in db.urls : x \notin last.before.urls

(***************************************************************************)
(* C19  Batch write order: one call of _insert_tweets sends the users      *)
(* inserts first (the authors, then the stubs), then the association       *)
(* relations, then tweets last; so an account the store does not hold      *)
(* before the batch, and that the batch has as an author, ends the batch   *)
(* with an author's attributes, also when the batch has it as a mentioned  *)
(* or replied-to account, before or after the author's record.             *)
(***************************************************************************)
Rank(table) ==
    CASE table = "users" -> 1
      [] table \in Associations -> 2
      [] table = "tweets" -> 3
      [] OTHER -> 0

\* The ids the records of a batch mention or reply to.
TargetsOf(tweets) ==
    UNION {{m.id : m \in SeqToSet(BatchMentions(t))} \cup ({t.in_reply_to_user_id} \ {NullId}) :
             t \in SeqToSet(tweets)}

BatchWriteOrder ==
    last.kind = "batch" =>
       /\ \A i, j \in 1..Len(last.log) :
             i < j => Rank(last.log[i].table) <= Rank(last.log[j].table)
       /\ \A i \in 1..Len(last.log) : Rank(last.log[i].table) > 0
       /\ last.log # << >> =>
             last.log[1].rows = [i \in 1..Len(last.tweets) |-> BatchUser(last.tweets[i])]
       /\ last.outcome = "loaded" =>
             /\ last.log[Len(last.log)].table = "tweets"
             /\ \A t \in SeqToSet(last.tweets) :
                   UsersWithId(last.before, t.user.id) = {} =>
                      \E a \in SeqToSet(last.tweets) :
                         /\ a.user.id = t.user.id
                         /\ UsersWithId(work, t.user.id) = {BatchUser(a)}

\* A batch was loaded into a store without users whose first record replies to the
\* author of its second record, and that author's row is the full one.
BatchWriteOrderWitness ==
    /\ last.kind = "batch" /\ last.outcome = "loaded"
    /\ last.before.users = {}
    /\ Len(last.tweets) = 2
    /\ last.tweets[2].user.id \in TargetsOf(<< last.tweets[1] >>)
    /\ last.tweets[1].user.id \in TargetsOf(<< last.tweets[2] >>)
    /\ UsersWithId(work, last.tweets[2].user.id) = {BatchUser(last.tweets[2])}
    /\ UsersWithId(work, last.tweets[1].user.id) = {BatchUser(last.tweets[1])}

(***************************************************************************)
(* C20  Completeness behind the skip: in every committed state of the row  *)
(* loader (any records, any order, repeated, with failures), when the      *)
(* tweets row of a record is in the store, so are a users row of its       *)
(* author, of every account it mentions and of the account it replies to,  *)
(* and every tweet_urls, tweet_mentions, tweet_tags and tweet_media row    *)
(* insert_tweet derives from it.                                           *)
(***************************************************************************)
HasUser(d, id) == \E u \in d.users : u.id_users = id

DerivedRowsExist(d, r) ==
    /\ HasUser(d, r.user.id)
    /\ r.in_reply_to_user_id # NullId => HasUser(d, r.in_reply_to_user_id)
    /\ \A m \in SeqToSet(RowMentions(r)) :
          /\ HasUser(d, m.id)
          /\ [id_tweets |-> r.id, id_users |-> m.id] \in d.tweet_mentions
    /\ \A u \in SeqToSet(RowUrls(r)) :
          \E x \in d.tweet_urls : x.id_tweets = r.id /\ UrlOf(d, x.id_urls) = {u}
    /\ \A tag \in SeqToSet(Tags(RowHashtags(r), RowSymbols(r))) :
          [id_tweets |-> r.id, tag |-> tag] \in d.tweet_tags
    /\ \A m \in SeqToSet(r.media) :
          \E x \in d.tweet_media :
             x.id_tweets = r.id /\ x.type = m.type /\ UrlOf(d, x.id_urls) = {m.media_url}

Completeness ==
    strategy = "row" =>
       \A r \in Records :
          ("id" \notin r.missing /\ TweetRow(r) \in db.tweets) => DerivedRowsExist(db, r)

\* The store holds the tweets row of T1 (links, a mention, tags, a photo), and the
\* last insert_tweet failed after it had written rows.
CompletenessWitness ==
    /\ strategy = "row"
    /\ TweetRow(T1) \in db.tweets
    /\ db.tweet_media # {} /\ db.tweet_urls # {} /\ db.tweet_mentions # {}
    /\ last.kind = "row" /\ last.outcome = "error"
    /\ \E i \in 1..Len(last.log) : last.log[i].new

====
